---------------------------- MODULE Spec2Model ----------------------------
(***************************************************************************)
(* A model of the CoraWiki Python tools runner                             *)
(* (src/corawiki-pytools/runner.py): the import-graph extractor, the       *)
(* locality classifier, the complexity analyzer and the dispatcher.        *)
(*                                                                         *)
(* Strings.  A Python str is modelled as a sequence of fragments.  A       *)
(* fragment is either one non-word character (a blank, a newline, a        *)
(* punctuation mark) or a non-empty run of word characters (\w).  Two      *)
(* adjacent word fragments stand for the concatenation of their            *)
(* characters, so <<"el", "if">> is the text `elif`.  The fragments used   *)
(* below are chosen so that no literal of a regular expression of the      *)
(* source straddles two fragments or is a strict prefix of one.            *)
(***************************************************************************)
EXTENDS Integers, Sequences, FiniteSets, TLC

VARIABLES
    pc,           \* position of the run: "start", then the name of the step taken
    payload,      \* the JSON object read from stdin (main)
    has_radon,    \* whether `import radon` succeeds in this environment
    stdout,       \* the JSON object written to stdout, or Nothing
    exit_status,  \* the process's exit status, or Nothing
    dialect,      \* which extractor the text is handed to: "py" or "js"
    text,         \* the text handed to a pure function of the runner
    out,          \* the function's local accumulator (`out`), or the previous score
    ret           \* the function's return value

vars == <<pc, payload, has_radon, stdout, exit_status, dialect, text, out, ret>>

Nothing == [none |-> TRUE]

-----------------------------------------------------------------------------
(* Bounds *)

RoughMaxLen == 3
ExtractMaxLines == 3
MaxBatch == 2

-----------------------------------------------------------------------------
(* Characters and fragments *)

Space == {" ", "\n"}

Punct == {".", "/", "\"", "'", "(", ")", "{", "}", ",", ";", ":", "="}

\* \s
IsSpace(c) == c \in Space

\* \w+ : every fragment that is not a blank or a punctuation mark
IsWord(c) == c \notin (Space \cup Punct)

\* the sequences over S of length at most n
RECURSIVE SeqsUpTo(_, _)
SeqsUpTo(S, n) ==
    IF n = 0 THEN {<<>>}
    ELSE LET shorter == SeqsUpTo(S, n - 1)
         IN  shorter \cup {Append(s, x) : s \in {q \in shorter : Len(q) = n - 1}, x \in S}

\* sep.join(ss) on fragments
RECURSIVE Join(_, _)
Join(ss, sep) ==
    IF ss = <<>> THEN <<>>
    ELSE IF Len(ss) = 1 THEN ss[1]
    ELSE ss[1] \o sep \o Join(Tail(ss), sep)

\* "".join(ss) for a sequence of word fragments
RECURSIVE Spell(_)
Spell(ss) == IF ss = <<>> THEN "" ELSE Head(ss) \o Spell(Tail(ss))

\* The canonical form of a string: adjacent word fragments merged into one.
RECURSIVE Canon(_)
Canon(s) ==
    IF Len(s) < 2 THEN s
    ELSE IF IsWord(s[1]) /\ IsWord(s[2])
         THEN Canon(<<s[1] \o s[2]>> \o SubSeq(s, 3, Len(s)))
         ELSE <<s[1]>> \o Canon(Tail(s))

-----------------------------------------------------------------------------
(* Regular expressions of the extractors *)

Quotes == {"\"", "'"}

NoMatch == [nomatch |-> TRUE]

\* the index after the longest run, starting at p, of fragments satisfying
\* the class: the greedy match of \s*, [\w.]* or [^"']*
RECURSIVE SkipSpaces(_, _)
SkipSpaces(t, p) ==
    IF p <= Len(t) /\ IsSpace(t[p]) THEN SkipSpaces(t, p + 1) ELSE p

RECURSIVE SkipDotted(_, _)
SkipDotted(t, p) ==
    IF p <= Len(t) /\ (IsWord(t[p]) \/ t[p] = ".") THEN SkipDotted(t, p + 1) ELSE p

RECURSIVE SkipUnquoted(_, _)
SkipUnquoted(t, p) ==
    IF p <= Len(t) /\ t[p] \notin Quotes THEN SkipUnquoted(t, p + 1) ELSE p

IsAt(t, p, lit) == p <= Len(t) /\ t[p] = lit

\* ["\']([^"\']+)["\'] at p
MatchQuoted(t, p) ==
    LET e == SkipUnquoted(t, p + 1)
    IN  IF p <= Len(t) /\ t[p] \in Quotes /\ e > p + 1 /\ e <= Len(t)
        THEN [end |-> e + 1, group |-> Canon(SubSeq(t, p + 1, e - 1))]
        ELSE NoMatch

\* require\s*\(\s*["\']([^"\']+)["\'] at p
MatchRequire(t, p) ==
    LET q == SkipSpaces(t, p + 1)
    IN  IF IsAt(t, p, "require") /\ IsAt(t, q, "(")
        THEN MatchQuoted(t, SkipSpaces(t, q + 1))
        ELSE NoMatch

\* \s+from\s+["\']([^"\']+)["\'] at q
MatchFromClause(t, q) ==
    LET f == SkipSpaces(t, q)
        s == SkipSpaces(t, f + 1)
    IN  IF f > q /\ IsAt(t, f, "from") /\ s > f + 1
        THEN MatchQuoted(t, s)
        ELSE NoMatch

\* import\s+.*?\s+from\s+["\']([^"\']+)["\'] at p.  The first \s+ is greedy
\* and gives blanks back one at a time; for each length k of it the lazy .*?
\* takes m = 0, 1, ... characters other than a newline; the first pair
\* <<k, m>> in that order after which the from clause matches is the match.
MatchImportFrom(t, p) ==
    LET kmax == SkipSpaces(t, p + 1) - (p + 1)
        Fits(k, m) ==
            /\ p + k + m <= Len(t)
            /\ \A j \in (p + k + 1)..(p + k + m) : t[j] # "\n"
            /\ MatchFromClause(t, p + k + m + 1) # NoMatch
        Cands == {km \in (1..kmax) \X (0..Len(t)) : Fits(km[1], km[2])}
        best == CHOOSE km \in Cands :
                    \A o \in Cands : \/ km[1] > o[1]
                                     \/ km[1] = o[1] /\ km[2] <= o[2]
    IN  IF IsAt(t, p, "import") /\ Cands # {}
        THEN MatchFromClause(t, p + best[1] + best[2] + 1)
        ELSE NoMatch

\* import\s+["\']([^"\']+)["\'] at p
MatchImportBare(t, p) ==
    LET q == SkipSpaces(t, p + 1)
    IN  IF IsAt(t, p, "import") /\ q > p + 1
        THEN MatchQuoted(t, q)
        ELSE NoMatch

\* ^\s*(?:from\s+([\w.]+)\s+import|import\s+([\w.]+)) with re.MULTILINE at p;
\* the group is m.group(1) or m.group(2)
MatchPyImport(t, p) ==
    LET q  == SkipSpaces(t, p)
        a  == SkipSpaces(t, q + 1)
        e  == SkipDotted(t, a)
        i  == SkipSpaces(t, e)
    IN  IF ~(p = 1 \/ t[p - 1] = "\n") THEN NoMatch
        ELSE IF IsAt(t, q, "from") /\ a > q + 1 /\ e > a /\ i > e /\ IsAt(t, i, "import")
             THEN [end |-> i + 1, group |-> Canon(SubSeq(t, a, e - 1))]
        ELSE IF IsAt(t, q, "import") /\ a > q + 1 /\ e > a
             THEN [end |-> e, group |-> Canon(SubSeq(t, a, e - 1))]
        ELSE NoMatch

MatchAt(pattern, t, p) ==
    CASE pattern = "require"     -> MatchRequire(t, p)
      [] pattern = "import_from" -> MatchImportFrom(t, p)
      [] pattern = "import_bare" -> MatchImportBare(t, p)
      [] pattern = "py_import"   -> MatchPyImport(t, p)

\* [m.group(1) for m in re.finditer(pattern, text)]: the matches found
\* scanning left to right, each search resuming where the last match ended
RECURSIVE finditer(_, _, _)
finditer(pattern, t, p) ==
    IF p > Len(t) THEN <<>>
    ELSE LET m == MatchAt(pattern, t, p)
         IN  IF m = NoMatch THEN finditer(pattern, t, p + 1)
             ELSE <<m.group>> \o finditer(pattern, t, m.end)

Range(s) == {s[k] : k \in 1..Len(s)}

fromkeys_no_dedup(s) == s

\* list(dict.fromkeys(out)): a dict keeps a key at its first insertion
RECURSIVE dict_fromkeys(_)
dict_fromkeys(s) ==
    IF s = <<>> THEN <<>>
    ELSE LET init == dict_fromkeys(SubSeq(s, 1, Len(s) - 1))
         IN  IF s[Len(s)] \in Range(init) THEN init ELSE Append(init, s[Len(s)])

-----------------------------------------------------------------------------
(* ast.parse and ast.walk on the statement subset the texts are drawn from: *)
(*   pass | NAME | import a.b, c | from ..a.b import x, y | if NAME: pass   *)
(* one statement a line, no indentation.  A line outside the subset stands  *)
(* for malformed text and makes the parse raise SyntaxError.                *)

PyKeywords ==
    {"import", "from", "pass", "if", "elif", "else", "for", "while", "with",
     "and", "or", "try", "except", "def", "as"}

IsName(c) == IsWord(c) /\ c \notin PyKeywords

\* text.split(sep) on fragments
RECURSIVE Split(_, _)
Split(t, sep) ==
    IF \A k \in 1..Len(t) : t[k] # sep THEN <<t>>
    ELSE LET k == CHOOSE j \in 1..Len(t) : t[j] = sep /\ \A h \in 1..(j - 1) : t[h] # sep
         IN  <<SubSeq(t, 1, k - 1)>> \o Split(SubSeq(t, k + 1, Len(t)), sep)

\* the tokens of a line: word runs and punctuation marks, blanks dropped
Tokens(line) == SelectSeq(Canon(line), LAMBDA c : ~IsSpace(c))

\* dotted_name: NAME ('.' NAME)*
IsDottedName(toks) ==
    /\ Len(toks) % 2 = 1
    /\ \A k \in 1..Len(toks) : IF k % 2 = 1 THEN IsName(toks[k]) ELSE toks[k] = "."

LeadingDots(toks) ==
    Cardinality({k \in 1..Len(toks) : \A j \in 1..k : toks[j] = "."})

SyntaxError == [type |-> "SyntaxError"]
NoStatement == [type |-> "Blank"]

ParseImport(toks) ==
    LET names == Split(SubSeq(toks, 2, Len(toks)), ",")
    IN  IF \A k \in 1..Len(names) : IsDottedName(names[k])
        THEN [type |-> "Import", names |-> names]
        ELSE SyntaxError

ParseImportFrom(toks) ==
    LET imp    == CHOOSE k \in 1..(Len(toks) + 1) :
                      /\ k = Len(toks) + 1 \/ toks[k] = "import"
                      /\ \A j \in 1..(k - 1) : toks[j] # "import"
        source == SubSeq(toks, 2, imp - 1)
        level  == LeadingDots(source)
        module == SubSeq(source, level + 1, Len(source))
        names  == Split(SubSeq(toks, imp + 1, Len(toks)), ",")
    IN  IF /\ imp <= Len(toks)
           /\ source # <<>>
           /\ module = <<>> \/ IsDottedName(module)
           /\ \A k \in 1..Len(names) : Len(names[k]) = 1 /\ IsName(names[k][1])
        THEN [type |-> "ImportFrom", module |-> module, level |-> level]
        ELSE SyntaxError

ParseStatement(line) ==
    LET toks == Tokens(line)
    IN  IF toks = <<>> THEN NoStatement
        ELSE IF IsSpace(line[1]) THEN SyntaxError
        ELSE IF toks = <<"pass">> THEN [type |-> "Pass"]
        ELSE IF Len(toks) = 1 /\ IsName(toks[1]) THEN [type |-> "Expr"]
        ELSE IF toks[1] = "import" THEN ParseImport(toks)
        ELSE IF toks[1] = "from" THEN ParseImportFrom(toks)
        ELSE IF /\ Len(toks) = 4 /\ toks[1] = "if" /\ IsName(toks[2])
                /\ toks[3] = ":" /\ toks[4] = "pass"
             THEN [type |-> "If"]
        ELSE SyntaxError

\* ast.parse(text): the statements of the module body, or SyntaxError
ast_parse(t) ==
    LET lines == Split(t, "\n")
        stmts == [k \in 1..Len(lines) |-> ParseStatement(lines[k])]
    IN  IF \E k \in 1..Len(stmts) : stmts[k] = SyntaxError
        THEN SyntaxError
        ELSE [type |-> "Module", body |-> SelectSeq(stmts, LAMBDA n : n # NoStatement)]

\* ast.walk(tree) is breadth first; the statements of the subset nest no
\* import, so the Import and ImportFrom nodes come in the order of the body.
RECURSIVE WalkImports(_)
WalkImports(body) ==
    IF body = <<>> THEN <<>>
    ELSE LET node == Head(body)
         IN  (CASE node.type = "Import" -> node.names
                [] node.type = "ImportFrom" ->
                       IF node.module # <<>> THEN <<node.module>> ELSE <<>>
                [] OTHER -> <<>>)
             \o WalkImports(Tail(body))

-----------------------------------------------------------------------------
(* _imports_python, runner.py 81-96, and _imports_js_ts, runner.py 99-109.  *)
(* Both give the local list `out` and what the call does: it returns a      *)
(* value or raises.                                                         *)

\* `import ast as py_ast` (line 11): the names the module ast defines.  The
\* handler `except py_ast.SyntaxError` (line 92) looks SyntaxError up in that
\* module when an exception reaches it; ast defines no such name (SyntaxError
\* is a builtin), so the lookup raises AttributeError.
py_ast_names == {"parse", "walk", "Import", "ImportFrom"}

Returned(v) == [raised |-> FALSE, value |-> v]
Raised(msg) == [raised |-> TRUE, error |-> msg]

imports_python_out(t) ==
    LET tree == ast_parse(t)
    IN  IF tree # SyntaxError THEN WalkImports(tree.body)
        ELSE IF "SyntaxError" \in py_ast_names THEN finditer("py_import", t, 1)
        ELSE <<>>

_imports_python(t) ==
    IF ast_parse(t) = SyntaxError /\ "SyntaxError" \notin py_ast_names
    THEN Raised("module 'ast' has no attribute 'SyntaxError'")
    ELSE Returned(dict_fromkeys(imports_python_out(t)))

imports_js_ts_import_first(t) ==
    finditer("import_from", t, 1) \o finditer("import_bare", t, 1)
        \o finditer("require", t, 1)

imports_js_ts_out(t) ==
    finditer("require", t, 1) \o finditer("import_from", t, 1)
        \o finditer("import_bare", t, 1)

_imports_js_ts(t) == Returned(dict_fromkeys(imports_js_ts_out(t)))

-----------------------------------------------------------------------------
(* pathlib and the filesystem.  A path string is a string (fragments, with  *)
(* "/" the separator); a Path is absolute and is the sequence of its        *)
(* components, each a string.  The filesystem holds no symbolic link.       *)

\* os.getcwd()
Cwd == << <<"w">> >>

\* the components of a path string: empty and "." components are dropped
Parts(fp) == SelectSeq(Split(fp, "/"), LAMBDA c : c # <<>> /\ c # <<".">>)

IsAbsolute(fp) == fp # <<>> /\ fp[1] = "/"

\* ".." steps to the parent; the parent of the root is the root
RECURSIVE Normalize(_)
Normalize(parts) ==
    IF parts = <<>> THEN <<>>
    ELSE LET init == Normalize(SubSeq(parts, 1, Len(parts) - 1))
             last == parts[Len(parts)]
         IN  IF last = <<".", ".">>
             THEN (IF init = <<>> THEN <<>> ELSE SubSeq(init, 1, Len(init) - 1))
             ELSE Append(init, last)

\* Path(fp).resolve()
Resolve(fp) ==
    IF IsAbsolute(fp) THEN Normalize(Parts(fp)) ELSE Normalize(Cwd \o Parts(fp))

\* str(path)
PathStr(path) ==
    IF path = <<>> THEN <<"/">> ELSE <<"/">> \o Join(path, <<"/">>)

\* workspace / rel : an absolute right operand replaces the left one
JoinPath(workspace, rel) ==
    IF IsAbsolute(rel) THEN Normalize(Parts(rel)) ELSE Normalize(workspace \o Parts(rel))

\* path.suffix: the last component from its last dot on, unless that dot
\* starts or ends the component
Suffix(path) ==
    IF path = <<>> THEN <<>>
    ELSE LET name == path[Len(path)]
             dots == {k \in 1..Len(name) : name[k] = "."}
             i    == CHOOSE k \in dots : \A j \in dots : j <= k
         IN  IF dots # {} /\ i > 1 /\ i < Len(name)
             THEN SubSeq(name, i, Len(name))
             ELSE <<>>

\* str.lower() on the fragments that occur in file names
LowerFragment(c) ==
    CASE c = "PY" -> "py"
      [] c = "JS" -> "js"
      [] OTHER -> c

Lower(x) == [k \in 1..Len(x) |-> LowerFragment(x[k])]

\* `from ..utils import helper\nimport os`
ExamplePy ==
    <<"from", " ", ".", ".", "utils", " ", "import", " ", "helper", "\n",
      "import", " ", "os">>

\* `import { a } from "./sibling"; const b = require("lodash");`
ExampleJs ==
    <<"import", " ", "{", " ", "a", " ", "}", " ", "from", " ", "\"", ".", "/", "sibling", "\"", ";",
      " ", "const", " ", "b", " ", "=", " ", "require", "(", "\"", "lodash", "\"", ")", ";">>

File(path, readable, content) ==
    [path |-> path, kind |-> "file", readable |-> readable, text |-> content]

Dir(path) == [path |-> path, kind |-> "dir"]

\* The filesystem of the run: two workspaces, /w (the working directory)
\* and /v.
FileSystem ==
    { Dir(<< <<"w">> >>),
      File(<< <<"w">>, <<"a", ".", "py">> >>, TRUE, ExamplePy),
      File(<< <<"w">>, <<"b", ".", "js">> >>, TRUE, ExampleJs),
      File(<< <<"w">>, <<"m", ".", "PY">> >>, TRUE,
           <<"import", " ", "os", "\n", "if", " ", "x", ":", " ", "pass", "\n",
             "import", " ", "a", ",", " ", "os">>),
      File(<< <<"w">>, <<"bad", ".", "py">> >>, TRUE,
           <<"def", " ", "f", "(", ":", "\n", "import", " ", "os">>),
      File(<< <<"w">>, <<"n", ".", "txt">> >>, TRUE, <<"import", " ", "os">>),
      File(<< <<"w">>, <<"locked", ".", "txt">> >>, FALSE, <<>>),
      File(<< <<"w">>, <<"locked", ".", "py">> >>, FALSE, <<>>),
      Dir(<< <<"w">>, <<"d", ".", "py">> >>),
      Dir(<< <<"v">> >>),
      Dir(<< <<"v">>, <<"os">> >>),
      File(<< <<"v">>, <<"lodash", ".", "js">> >>, TRUE, <<>>),
      File(<< <<"v">>, <<"a", ".", "py">> >>, TRUE, <<>>) }

Entries(path) == {e \in FileSystem : e.path = path}

\* path.exists(); the root always exists
Exists(path) == path = <<>> \/ Entries(path) # {}

\* path.is_file()
IsFile(path) == \E e \in Entries(path) : e.kind = "file"

\* path.read_text(encoding="utf-8", errors="replace"): decoding never fails,
\* opening the file can
ReadText(path) ==
    LET e == CHOOSE x \in Entries(path) : TRUE
    IN  IF e.readable THEN [raised |-> FALSE, value |-> e.text]
        ELSE [raised |-> TRUE, error |-> "[Errno 13] Permission denied"]

-----------------------------------------------------------------------------
(* _is_local_import, runner.py 112-124 *)

LocalExtensions ==
    << <<".", "ts">>, <<".", "tsx">>, <<".", "js">>, <<".", "jsx">>, <<".", "py">>,
       <<"/", "index", ".", "ts">>, <<"/", "index", ".", "js">> >>

_is_local_import(imp, file_path, workspace) ==
    \/ imp[1] = "."
    \/ Exists(JoinPath(workspace, imp))
    \/ \E k \in 1..Len(LocalExtensions) : Exists(JoinPath(workspace, imp \o LocalExtensions[k]))

-----------------------------------------------------------------------------
(* _rough_cyclomatic, runner.py 179-184 *)

\* re.findall(r"\b(?:k1|k2|...)\b", text): \b holds only at the two ends of a
\* maximal run of word characters, so a match is a whole run equal to a keyword.
findall_words(keywords, t) ==
    LET c == Canon(t)
    IN  SelectSeq(c, LAMBDA w : w \in keywords)

BranchKeywords == {"if", "elif", "else", "for", "while", "with"}

BoolKeywords == {"and", "or"}

TryKeywords == {"try", "except"}

rough_no_boundary(t) ==
    1 + Len(SelectSeq(t, LAMBDA w : w \in BranchKeywords))
      + Len(SelectSeq(t, LAMBDA w : w \in BoolKeywords))
      + Len(SelectSeq(t, LAMBDA w : w \in TryKeywords))

_rough_cyclomatic(t) ==
    1 + Len(findall_words(BranchKeywords, t))
      + Len(findall_words(BoolKeywords, t))
      + Len(findall_words(TryKeywords, t))

-----------------------------------------------------------------------------
(* extract_import_graph, runner.py 25-78 *)

PySuffixes == { <<".", "py">> }

JsSuffixes ==
    { <<".", "ts">>, <<".", "tsx">>, <<".", "js">>, <<".", "jsx">>,
      <<".", "mjs">>, <<".", "cjs">> }

Partition_all_external(imports, path, workspace) ==
    [local    |-> SelectSeq(imports, LAMBDA imp : _is_local_import(imp, path, workspace)),
     external |-> imports]

\* lines 65-71: the two lists filled in one pass over imports
Partition(imports, path, workspace) ==
    [local    |-> SelectSeq(imports, LAMBDA imp : _is_local_import(imp, path, workspace)),
     external |-> SelectSeq(imports, LAMBDA imp : ~_is_local_import(imp, path, workspace))]

\* lines 65-77, once the extractor has returned or raised
record_of_imports(path, found, workspace) ==
    IF found.raised THEN found
    ELSE Returned([filePath     |-> PathStr(path),
                   imports      |-> found.value,
                   localDeps    |-> Partition(found.value, path, workspace).local,
                   externalDeps |-> Partition(found.value, path, workspace).external])

\* lines 51-64, once the text is read
record_of_text(fp, path, suffix, content, workspace) ==
    IF suffix \in PySuffixes
    THEN record_of_imports(path, _imports_python(content), workspace)
    ELSE IF suffix \in JsSuffixes
    THEN record_of_imports(path, _imports_js_ts(content), workspace)
    ELSE Returned([filePath |-> fp, imports |-> <<>>, localDeps |-> <<>>,
                   externalDeps |-> <<>>])

\* lines 40-50, once the read has returned or raised
record_of_read(fp, path, read, workspace) ==
    IF read.raised
    THEN Returned([filePath |-> fp, imports |-> <<>>, localDeps |-> <<>>,
                   externalDeps |-> <<>>, error |-> read.error])
    ELSE record_of_text(fp, path, Lower(Suffix(path)), read.value, workspace)

\* lines 31-39, once the path is resolved
record_of_path(fp, path, workspace) ==
    IF ~Exists(path) \/ ~IsFile(path)
    THEN Returned([filePath |-> fp, imports |-> <<>>, localDeps |-> <<>>,
                   externalDeps |-> <<>>, error |-> "file not found"])
    ELSE record_of_read(fp, path, ReadText(path), workspace)

\* one iteration of the loop of lines 29-77: the record appended for fp, or
\* the exception that leaves the loop
import_record(fp, workspace) == record_of_path(fp, Resolve(fp), workspace)

RECURSIVE import_graph_loop(_, _, _)

import_graph_stops_at_missing(r, rest, workspace, results) ==
    IF r.raised THEN r
    ELSE IF "error" \in DOMAIN r.value /\ r.value.error = "file not found"
    THEN Returned(Append(results, r.value))
    ELSE import_graph_loop(rest, workspace, Append(results, r.value))

\* the end of an iteration: an exception leaves the loop, a record is
\* appended and the loop goes on
import_graph_next(r, rest, workspace, results) ==
    IF r.raised THEN r
    ELSE import_graph_loop(rest, workspace, Append(results, r.value))

\* the loop of lines 29-77 from the point where `results` holds the records
\* of the paths already seen
import_graph_loop(file_paths, workspace, results) ==
    IF file_paths = <<>> THEN Returned(results)
    ELSE import_graph_next(import_record(Head(file_paths), workspace),
                           Tail(file_paths), workspace, results)

extract_import_graph(file_paths, workspace_path) ==
    import_graph_loop(file_paths, Resolve(workspace_path), <<>>)

-----------------------------------------------------------------------------
(* analyze_complexity, runner.py 127-176 *)

None == "None"

\* radon's cc_visit and mi_visit (lines 157-159) parse the text and raise on
\* a syntax error; the statement subset holds no function-like unit, so
\* cc_visit returns no block.  The maintainability index is left opaque.
radon_visit(t) ==
    IF ast_parse(t) = SyntaxError THEN Raised("invalid syntax")
    ELSE Returned([blocks |-> <<>>, mi |-> "round(mi, 2)"])

\* lines 155-175, once the text is read
complexity_of_text(path, content, radon) ==
    IF ~radon
    THEN [filePath |-> PathStr(path),
          complexity |-> << [name |-> "(file)",
                             complexity |-> _rough_cyclomatic(content),
                             line |-> 1] >>,
          maintainability_index |-> None,
          note |-> "install radon for full metrics"]
    ELSE IF radon_visit(content).raised
    THEN [filePath |-> PathStr(path), complexity |-> <<>>,
          maintainability_index |-> None, error |-> radon_visit(content).error]
    ELSE [filePath |-> PathStr(path), complexity |-> radon_visit(content).value.blocks,
          maintainability_index |-> radon_visit(content).value.mi]

\* lines 150-154, once the read has returned or raised
complexity_of_read(fp, path, read, radon) ==
    IF read.raised
    THEN [filePath |-> fp, complexity |-> <<>>, maintainability_index |-> None,
          error |-> read.error]
    ELSE complexity_of_text(path, read.value, radon)

\* lines 138-149, once the path is resolved
complexity_of_path(fp, path, radon) ==
    IF ~Exists(path) \/ ~IsFile(path)
    THEN [filePath |-> fp, complexity |-> <<>>, maintainability_index |-> None,
          error |-> "file not found"]
    ELSE IF Lower(Suffix(path)) # <<".", "py">>
    THEN [filePath |-> PathStr(path), complexity |-> <<>>,
          maintainability_index |-> None,
          note |-> "complexity only supported for Python files"]
    ELSE complexity_of_read(fp, path, ReadText(path), radon)

\* one iteration of the loop of lines 136-175
complexity_record(fp, radon) == complexity_of_path(fp, Resolve(fp), radon)

\* the loop of lines 136-175
RECURSIVE complexity_loop(_, _, _)
complexity_loop(file_paths, radon, results) ==
    IF file_paths = <<>> THEN Returned(results)
    ELSE complexity_loop(Tail(file_paths), radon,
                         Append(results, complexity_record(Head(file_paths), radon)))

analyze_complexity(file_paths, workspace_path, radon) ==
    complexity_loop(file_paths, radon, <<>>)

-----------------------------------------------------------------------------
(* main, runner.py 187-208: one run of the process.  The payload is on      *)
(* stdin when the process starts.                                           *)

\* obj.get(key) or default: the default stands in for a missing key and for
\* an empty value
GetOr(obj, key, default) ==
    IF key \in DOMAIN obj /\ obj[key] # <<>> THEN obj[key] ELSE default

EmptyObject == [k \in {} |-> None]

Tools == {"extract_import_graph", "analyze_complexity"}

\* the path strings a request can name
PathStrings ==
    { <<"a", ".", "py">>,
      <<"/", "w", "/", "a", ".", "py">>,
      <<".", ".", "/", "w", "/", "b", ".", "js">>,
      <<"m", ".", "PY">>,
      <<"bad", ".", "py">>,
      <<"n", ".", "txt">>,
      <<"locked", ".", "txt">>,
      <<"locked", ".", "py">>,
      <<"d", ".", "py">>,
      <<"nope", ".", "py">> }

WorkspaceStrings == { <<"/", "w">>, <<"/", "v">> }

Init ==
    /\ pc = "start"
    /\ \/ \E t \in Tools, fps \in SeqsUpTo(PathStrings, MaxBatch), w \in WorkspaceStrings :
              payload = [tool |-> t, args |-> [filePaths |-> fps], workspacePath |-> w]
       \/ \E t \in Tools, fps \in SeqsUpTo(PathStrings, MaxBatch) :
              payload = [tool |-> t, args |-> [filePaths |-> fps]]
       \/ \E t \in Tools \cup {"bogus"} : payload = [tool |-> t]
       \/ payload = [workspacePath |-> <<"/", "w">>]
    /\ has_radon \in BOOLEAN
    /\ stdout = Nothing
    /\ exit_status = Nothing
    /\ dialect = Nothing
    /\ text = Nothing
    /\ out = Nothing
    /\ ret = Nothing

Finish(response, status) ==
    /\ stdout' = response
    /\ exit_status' = status
    /\ UNCHANGED <<payload, has_radon, dialect, text, out, ret>>

\* lines 199 and 203 when the call returns, lines 206-208 when it raises
Respond(result) ==
    IF result.raised
    THEN Finish([ok |-> FALSE, error |-> result.error], 1)
    ELSE Finish([ok |-> TRUE, result |-> result.value], 0)

\* the tool this run dispatches to, and its arguments
tool_given == "tool" \in DOMAIN payload
tool == payload.tool
file_paths == GetOr(GetOr(payload, "args", EmptyObject), "filePaths", <<>>)
workspace_path == GetOr(payload, "workspacePath", PathStr(Cwd))

\* lines 193-195
MainMissingTool ==
    /\ pc = "start"
    /\ ~tool_given
    /\ pc' = "done"
    /\ Finish([ok |-> FALSE, error |-> "missing tool"], 0)

\* lines 204-205
MainUnknownTool ==
    /\ pc = "start"
    /\ tool_given
    /\ tool \notin Tools
    /\ pc' = "done"
    /\ Finish([ok |-> FALSE, error |-> <<"unknown tool: ", tool>>], 0)

\* lines 196-199, and 206-208 when the call raises
MainExtractImportGraph ==
    /\ pc = "start"
    /\ tool_given
    /\ tool = "extract_import_graph"
    /\ pc' = "done"
    /\ Respond(extract_import_graph(file_paths, workspace_path))

\* lines 200-203
MainAnalyzeComplexity ==
    /\ pc = "start"
    /\ tool_given
    /\ tool = "analyze_complexity"
    /\ pc' = "done"
    /\ Respond(analyze_complexity(file_paths, workspace_path, has_radon))

Next ==
    \/ MainMissingTool
    \/ MainUnknownTool
    \/ MainExtractImportGraph
    \/ MainAnalyzeComplexity

Spec == Init /\ [][Next]_vars

-----------------------------------------------------------------------------
(* Properties of a run *)

Finished == pc = "done" /\ tool_given /\ tool \in Tools

Succeeded == Finished /\ stdout.ok

Sibling == <<".", "/", "sibling">>
Lodash == <<"lodash">>

\* the regular file a path string names, if it names one
FileAt(fp) == {e \in FileSystem : e.path = Resolve(fp) /\ e.kind = "file"}

NamesNoFile(fp) == FileAt(fp) = {}

NamesFileWithText(fp, content) == \E e \in FileAt(fp) : e.readable /\ e.text = content

\* no entry of the filesystem below the workspace has a component that starts
\* with the word
NothingNamed(word) ==
    LET ws == Resolve(workspace_path)
    IN  \A e \in FileSystem :
            (Len(e.path) > Len(ws) /\ SubSeq(e.path, 1, Len(ws)) = ws) =>
                \A k \in (Len(ws) + 1)..Len(e.path) : e.path[k][1] # word

HasNoDuplicate(s) == \A i, j \in 1..Len(s) : i # j => s[i] # s[j]

FirstIndex(s, x) == CHOOSE k \in 1..Len(s) : s[k] = x /\ \A j \in 1..(k - 1) : s[j] # x

\* sub holds distinct elements of s in the order they have in s
KeepsOrderOf(sub, s) ==
    /\ HasNoDuplicate(sub)
    /\ Range(sub) \subseteq Range(s)
    /\ \A i, j \in 1..Len(sub) : i < j => FirstIndex(s, sub[i]) < FirstIndex(s, sub[j])

\* C1: both operations return exactly one record per input path, the i-th
\* record for the i-th path, whatever the batch.
C1_OneRecordPerPath ==
    Finished =>
        /\ stdout.ok
        /\ Len(stdout.result) = Len(file_paths)
        /\ \A k \in 1..Len(file_paths) :
               stdout.result[k].filePath \in {file_paths[k], PathStr(Resolve(file_paths[k]))}

\* C2: in every record of extract_import_graph, localDeps and externalDeps
\* partition imports: each import is in exactly one of the two lists, the
\* lists hold nothing else, and each keeps the relative order of imports.
C2_DepsPartitionImports ==
    (Succeeded /\ tool = "extract_import_graph") =>
        \A k \in 1..Len(stdout.result) :
            LET r == stdout.result[k]
            IN  /\ \A x \in Range(r.imports) :
                       (x \in Range(r.localDeps)) # (x \in Range(r.externalDeps))
                /\ KeepsOrderOf(r.localDeps, r.imports)
                /\ KeepsOrderOf(r.externalDeps, r.imports)

C2_Witness ==
    /\ Succeeded
    /\ tool = "extract_import_graph"
    /\ \E k \in 1..Len(stdout.result) :
           /\ stdout.result[k].localDeps # <<>>
           /\ stdout.result[k].externalDeps # <<>>

\* a readable .py file whose text does not parse
IsMalformedPython(fp) ==
    \E e \in FileAt(fp) :
        /\ e.readable
        /\ Lower(Suffix(e.path)) = <<".", "py">>
        /\ ast_parse(e.text) = SyntaxError

\* C3: a .py file whose text fails to parse does not make the run fail: the
\* response is ok, every path of the batch has its record, and the record of
\* the malformed file lists what the line-anchored pattern finds.
C3_SyntaxErrorFallsBack ==
    (Finished /\ tool = "extract_import_graph"
        /\ \E k \in 1..Len(file_paths) : IsMalformedPython(file_paths[k])) =>
        /\ stdout.ok
        /\ Len(stdout.result) = Len(file_paths)
        /\ \A k \in 1..Len(file_paths) :
               IsMalformedPython(file_paths[k]) =>
                   \E e \in FileAt(file_paths[k]) :
                       stdout.result[k].imports =
                           dict_fromkeys(finditer("py_import", e.text, 1))

\* C5: the record of a .py file with the text
\* `from ..utils import helper\nimport os` has imports = ["..utils", "os"],
\* "..utils" local and "os" external when nothing under the workspace is
\* named os.
C5_RelativeFromImport ==
    (Succeeded /\ tool = "extract_import_graph" /\ NothingNamed("os")) =>
        \A k \in 1..Len(file_paths) :
            NamesFileWithText(file_paths[k], ExamplePy) =>
                /\ stdout.result[k].imports = << <<".", ".", "utils">>, <<"os">> >>
                /\ stdout.result[k].localDeps = << <<".", ".", "utils">> >>
                /\ stdout.result[k].externalDeps = << <<"os">> >>

\* C6 as stated: the record of a .js file with the text
\* `import { a } from "./sibling"; const b = require("lodash");` has
\* imports = ["./sibling", "lodash"], "./sibling" local and "lodash" external
\* when nothing under the workspace is named lodash.
C6_ImportBeforeRequire ==
    (Succeeded /\ tool = "extract_import_graph" /\ NothingNamed("lodash")) =>
        \A k \in 1..Len(file_paths) :
            NamesFileWithText(file_paths[k], ExampleJs) =>
                /\ stdout.result[k].imports = <<Sibling, Lodash>>
                /\ stdout.result[k].localDeps = <<Sibling>>
                /\ stdout.result[k].externalDeps = <<Lodash>>

\* C6 (amended): for that text the imports are ["lodash", "./sibling"], the
\* matches of the require pattern before those of the import patterns, with
\* "./sibling" local and "lodash" external when nothing under the workspace
\* is named lodash.
C6_RequireBeforeImport ==
    (Succeeded /\ tool = "extract_import_graph" /\ NothingNamed("lodash")) =>
        \A k \in 1..Len(file_paths) :
            NamesFileWithText(file_paths[k], ExampleJs) =>
                /\ stdout.result[k].imports = <<Lodash, Sibling>>
                /\ stdout.result[k].localDeps = <<Sibling>>
                /\ stdout.result[k].externalDeps = <<Lodash>>

C6_Witness ==
    /\ Succeeded
    /\ tool = "extract_import_graph"
    /\ NothingNamed("lodash")
    /\ \E k \in 1..Len(file_paths) :
           /\ NamesFileWithText(file_paths[k], ExampleJs)
           /\ stdout.result[k].imports = <<Lodash, Sibling>>

\* what the operation of this run does on another batch
RunOn(fps) ==
    IF tool = "extract_import_graph" THEN extract_import_graph(fps, workspace_path)
    ELSE analyze_complexity(fps, workspace_path, has_radon)

ResultLists(r) ==
    IF tool = "extract_import_graph" THEN <<r.imports, r.localDeps, r.externalDeps>>
    ELSE <<r.complexity>>

\* the positions of the batch whose path names a regular file
Present == {k \in 1..Len(file_paths) : ~NamesNoFile(file_paths[k])}

RECURSIVE Keep(_, _, _)
Keep(s, positions, k) ==
    IF k > Len(s) THEN <<>>
    ELSE (IF k \in positions THEN <<s[k]>> ELSE <<>>) \o Keep(s, positions, k + 1)

\* C7: a path that names no regular file never makes the run raise; its
\* record has a non-empty error and empty lists, and the other paths of the
\* batch get the records they get in the batch without it.
C7_MissingPathIsContained ==
    Finished =>
        LET without == RunOn(Keep(file_paths, Present, 1))
        IN  /\ stdout.ok = ~without.raised
            /\ stdout.ok =>
                 /\ Len(stdout.result) = Len(file_paths)
                 /\ Keep(stdout.result, Present, 1) = without.value
                 /\ \A k \in (1..Len(file_paths)) \ Present :
                        /\ "error" \in DOMAIN stdout.result[k]
                        /\ stdout.result[k].error # ""
                        /\ \A l \in Range(ResultLists(stdout.result[k])) : l = <<>>

C7_Witness ==
    /\ Succeeded
    /\ Len(file_paths) = 2
    /\ NamesNoFile(file_paths[1])
    /\ ~NamesNoFile(file_paths[2])
    /\ "error" \in DOMAIN stdout.result[1]
    /\ "error" \notin DOMAIN stdout.result[2]

Supported ==
    IF tool = "extract_import_graph" THEN PySuffixes \cup JsSuffixes ELSE PySuffixes

\* C8: an existing regular file whose extension the operation does not
\* support gets a record with empty lists and no error field.
C8_UnsupportedIsNotAnError ==
    Succeeded =>
        \A k \in 1..Len(file_paths) :
            (\E e \in FileAt(file_paths[k]) : Lower(Suffix(e.path)) \notin Supported) =>
                /\ "error" \notin DOMAIN stdout.result[k]
                /\ \A l \in Range(ResultLists(stdout.result[k])) : l = <<>>

\* C9: in every record of either operation, filePath is the resolved
\* absolute form of the input path.
C9_FilePathIsResolved ==
    Succeeded =>
        \A k \in 1..Len(file_paths) :
            stdout.result[k].filePath = PathStr(Resolve(file_paths[k]))

-----------------------------------------------------------------------------
(* The extractors as functions of the text: a text of at most              *)
(* ExtractMaxLines statements is handed to the extractor of its dialect.    *)

PyLines ==
    { <<"import", " ", "os">>,
      <<"from", " ", ".", ".", "utils", " ", "import", " ", "helper">>,
      <<"import", " ", "a", ",", " ", "os">>,
      <<"from", " ", ".", " ", "import", " ", "x">>,
      <<"import", " ", "os", ".", "path">>,
      <<"from", " ", "utils", " ", "import", " ", "y">>,
      <<"if", " ", "x", ":", " ", "pass">>,
      <<"def", " ", "f", "(", ":">> }

JsStatements ==
    { <<"import", " ", "{", " ", "a", " ", "}", " ", "from", " ", "\"", ".", "/", "sibling", "\"", ";">>,
      <<"const", " ", "b", " ", "=", " ", "require", "(", "\"", "lodash", "\"", ")", ";">>,
      <<"import", " ", "\"", ".", "/", "side", "\"", ";">>,
      <<"import", " ", "x", " ", "from", " ", "'", "lodash", "'", ";">>,
      <<"require", " ", "(", " ", "'", ".", "/", "sibling", "'", ")">>,
      <<"import", " ", " ", "from", "\n", "'", "q", "'">> }

PyTexts == {Join(ls, <<"\n">>) : ls \in SeqsUpTo(PyLines, ExtractMaxLines)}
JsTexts == {Join(ls, <<" ">>) : ls \in SeqsUpTo(JsStatements, ExtractMaxLines)}

InitExtract ==
    /\ pc = "start"
    /\ payload = Nothing
    /\ has_radon = FALSE
    /\ stdout = Nothing
    /\ exit_status = Nothing
    /\ \/ dialect = "py" /\ text \in PyTexts
       \/ dialect = "js" /\ text \in JsTexts
    /\ out = Nothing
    /\ ret = Nothing

ImportsPython ==
    /\ pc = "start"
    /\ dialect = "py"
    /\ pc' = "extracted"
    /\ out' = imports_python_out(text)
    /\ ret' = _imports_python(text)
    /\ UNCHANGED <<payload, has_radon, stdout, exit_status, dialect, text>>

ImportsJsTs ==
    /\ pc = "start"
    /\ dialect = "js"
    /\ pc' = "extracted"
    /\ out' = imports_js_ts_out(text)
    /\ ret' = _imports_js_ts(text)
    /\ UNCHANGED <<payload, has_radon, stdout, exit_status, dialect, text>>

NextExtract == ImportsPython \/ ImportsJsTs

SpecExtract == InitExtract /\ [][NextExtract]_vars

\* C4: the list an extractor returns holds no specifier twice, holds every
\* specifier of the raw match sequence, and holds them in the order of their
\* first matches.
C4_DedupKeepsFirstOccurrence ==
    (pc = "extracted" /\ ~ret.raised) =>
        /\ Range(ret.value) = Range(out)
        /\ KeepsOrderOf(ret.value, out)

\* a specifier matched twice, with another one in between
C4_Witness ==
    /\ pc = "extracted"
    /\ dialect = "js"
    /\ ~ret.raised
    /\ \E i, j \in 1..Len(out) : i + 1 < j /\ out[i] = out[j] /\ out[i + 1] # out[i]
    /\ Len(ret.value) < Len(out)

-----------------------------------------------------------------------------
(* The fallback score as a function of the text: the score of a text, then  *)
(* the score of the same text with one more `if` statement appended.        *)

RoughAlphabet == {"if", "el", "else", "x", "and", "try", " ", "\n", ":"}

\* `if a:\n  pass\nelif b:\n  pass\nelse:\n  pass`
RoughExample ==
    <<"if", " ", "a", ":", "\n", " ", " ", "pass", "\n",
      "elif", " ", "b", ":", "\n", " ", " ", "pass", "\n",
      "else", ":", "\n", " ", " ", "pass">>

\* one more `if` statement on a line of its own
IfStatement == <<"\n", "if", " ", "c", ":", " ", "pass">>

InitRough ==
    /\ pc = "start"
    /\ payload = Nothing
    /\ has_radon = FALSE
    /\ stdout = Nothing
    /\ exit_status = Nothing
    /\ dialect = Nothing
    /\ text \in SeqsUpTo(RoughAlphabet, RoughMaxLen) \cup {RoughExample}
    /\ out = Nothing
    /\ ret = Nothing

RoughScore ==
    /\ pc = "start"
    /\ pc' = "scored"
    /\ ret' = _rough_cyclomatic(text)
    /\ UNCHANGED <<payload, has_radon, stdout, exit_status, dialect, text, out>>

RoughAppendIf ==
    /\ pc = "scored"
    /\ pc' = "appended"
    /\ text' = text \o IfStatement
    /\ out' = ret
    /\ ret' = _rough_cyclomatic(text')
    /\ UNCHANGED <<payload, has_radon, stdout, exit_status, dialect>>

NextRough == RoughScore \/ RoughAppendIf

SpecRough == InitRough /\ [][NextRough]_vars

\* The whole-word occurrences of a keyword set, counted by position: a
\* position starts an occurrence when a run of word fragments starts there
\* and the characters of the run spell a keyword.
RunEnd(t, p) ==
    CHOOSE q \in p..Len(t) :
        /\ \A k \in p..q : IsWord(t[k])
        /\ q = Len(t) \/ ~IsWord(t[q + 1])

WholeWordOccurrences(keywords, t) ==
    {p \in 1..Len(t) :
        /\ IsWord(t[p])
        /\ p = 1 \/ ~IsWord(t[p - 1])
        /\ Spell(SubSeq(t, p, RunEnd(t, p))) \in keywords}

CountedKeywords ==
    {"if", "elif", "else", "for", "while", "with", "and", "or", "try", "except"}

\* C10: the fallback score is 1 plus the number of whole-word occurrences of
\* the ten counted keywords; appending one more `if` statement on its own
\* line raises the score by exactly 1; the if/elif/else example scores 4.
C10_RoughScore ==
    /\ pc \in {"scored", "appended"} =>
          ret = 1 + Cardinality(WholeWordOccurrences(CountedKeywords, text))
    /\ pc = "appended" => ret = out + 1
    /\ (pc = "scored" /\ text = RoughExample) => ret = 4

C10_Witness ==
    /\ pc = "appended"
    /\ text = RoughExample \o IfStatement
    /\ out = 4
    /\ ret = 5

=============================================================================
